---- MODULE Spec2Model ----
(***************************************************************************)
(* Model of src/src/app.js (release branch manager).  Strings the code     *)
(* pattern-matches (tags, branch names) are sequences of one-character     *)
(* strings, so that SEMVER_PATTERN, RELEASE_BRANCH_PATTERN, parseInt and   *)
(* template formatting are computed rather than assumed.                   *)
(***************************************************************************)
EXTENDS Integers, Sequences, FiniteSets, TLC

(* ------------------------------ bounds -------------------------------- *)
\* largest number of tags in the repository
MaxTags == 2
\* number of successive runs of main against the same repository
MaxRuns == 2
\* commits are 0..MaxCommit, a linear history: the parent of c is c-1
MaxCommit == 3

(* ----------------------------- characters ----------------------------- *)
Digits == {"0","1","2","3","4","5","6","7","8","9"}

Letters ==
  {"a","b","c","d","e","f","g","h","i","j","k","l","m","n","o","p","q","r",
   "s","t","u","v","w","x","y","z","A","B","C","D","E","F","G","H","I","J",
   "K","L","M","N","O","P","Q","R","S","T","U","V","W","X","Y","Z"}

\* the characters of the model's strings, in ASCII order
Alphabet ==
  <<"+","-",".","/","0","1","2","3","4","5","6","7","8","9",
    "A","B","C","D","E","F","G","H","I","J","K","L","M","N","O","P","Q","R",
    "S","T","U","V","W","X","Y","Z",
    "a","b","c","d","e","f","g","h","i","j","k","l","m","n","o","p","q","r",
    "s","t","u","v","w","x","y","z">>

CharCode(c) == CHOOSE i \in 1..Len(Alphabet) : Alphabet[i] = c

AllIn(s, S) == \A i \in 1..Len(s) : s[i] \in S

\* index of the first occurrence of c in s, 0 when there is none
IndexOf(s, c) ==
  IF \E i \in 1..Len(s) : s[i] = c
  THEN CHOOSE i \in 1..Len(s) : s[i] = c /\ \A j \in 1..(i-1) : s[j] # c
  ELSE 0

RECURSIVE Split(_, _)
Split(s, sep) ==
  LET p == IndexOf(s, sep)
  IN IF p = 0 THEN <<s>>
     ELSE <<SubSeq(s, 1, p-1)>> \o Split(SubSeq(s, p+1, Len(s)), sep)

\* byte-wise string order, as git uses to sort refnames
RECURSIVE StrLess(_, _)
StrLess(a, b) ==
  IF Len(a) = 0 THEN Len(b) > 0
  ELSE IF Len(b) = 0 THEN FALSE
  ELSE IF a[1] = b[1] THEN StrLess(Tail(a), Tail(b))
  ELSE CharCode(a[1]) < CharCode(b[1])

(* ------------------------- version classifier ------------------------- *)
\* 0|[1-9]\d*
NumericIdentifier(s) ==
  /\ Len(s) > 0
  /\ AllIn(s, Digits)
  /\ (s[1] = "0" => Len(s) = 1)

\* 0|[1-9]\d*|\d*[a-zA-Z-][0-9a-zA-Z-]*
PrereleaseIdentifier(s) ==
  /\ Len(s) > 0
  /\ AllIn(s, Digits \cup Letters \cup {"-"})
  /\ (AllIn(s, Digits) => NumericIdentifier(s))

\* [0-9a-zA-Z-]+
BuildIdentifier(s) ==
  /\ Len(s) > 0
  /\ AllIn(s, Digits \cup Letters \cup {"-"})

\* the pieces SEMVER_PATTERN would have to match: core, prerelease, build
SemverParts(version) ==
  LET p          == IndexOf(version, "+")
      beforePlus == IF p = 0 THEN version ELSE SubSeq(version, 1, p-1)
      d          == IndexOf(beforePlus, "-")
  IN [ core     |-> IF d = 0 THEN beforePlus ELSE SubSeq(beforePlus, 1, d-1),
       hasPre   |-> d # 0,
       pre      |-> IF d = 0 THEN <<>> ELSE SubSeq(beforePlus, d+1, Len(beforePlus)),
       hasBuild |-> p # 0,
       build    |-> IF p = 0 THEN <<>> ELSE SubSeq(version, p+1, Len(version)) ]

SEMVER_PATTERN(version) ==
  LET parts == SemverParts(version)
      core  == Split(parts.core, ".")
      pre   == Split(parts.pre, ".")
      build == Split(parts.build, ".")
  IN /\ Len(core) = 3
     /\ \A i \in 1..3 : NumericIdentifier(core[i])
     /\ parts.hasPre => \A i \in 1..Len(pre) : PrereleaseIdentifier(pre[i])
     /\ parts.hasBuild => \A i \in 1..Len(build) : BuildIdentifier(build[i])

isSemver(version) == SEMVER_PATTERN(version)

\* the major group of the match, '' (the empty string) when there is no match
getMajor(version) ==
  IF SEMVER_PATTERN(version)
  THEN Split(SemverParts(version).core, ".")[1]
  ELSE <<>>

RELEASE_BRANCH_PREFIX == <<"r","e","l","e","a","s","e","/","v">>

\* ^release\/v([0-9]+)$
RELEASE_BRANCH_PATTERN(branchName) ==
  /\ Len(branchName) > Len(RELEASE_BRANCH_PREFIX)
  /\ SubSeq(branchName, 1, Len(RELEASE_BRANCH_PREFIX)) = RELEASE_BRANCH_PREFIX
  /\ AllIn(SubSeq(branchName, Len(RELEASE_BRANCH_PREFIX) + 1, Len(branchName)), Digits)

isBranchAReleaseBranch(branchName) == RELEASE_BRANCH_PATTERN(branchName)

getMajorFromReleaseBranch(releaseBranch) ==
  IF RELEASE_BRANCH_PATTERN(releaseBranch)
  THEN SubSeq(releaseBranch, Len(RELEASE_BRANCH_PREFIX) + 1, Len(releaseBranch))
  ELSE <<>>

(* --------------------- number parsing and printing -------------------- *)
DigitVal(c) == CharCode(c) - CharCode("0")

\* parseInt(s, 10) of a string of decimal digits
RECURSIVE parseInt(_)
parseInt(s) ==
  IF Len(s) = 0 THEN 0
  ELSE parseInt(SubSeq(s, 1, Len(s) - 1)) * 10 + DigitVal(s[Len(s)])

RECURSIVE NatToString(_)
NatToString(n) ==
  IF n < 10 THEN <<Alphabet[CharCode("0") + n]>>
  ELSE NatToString(n \div 10) \o <<Alphabet[CharCode("0") + (n % 10)]>>

\* `${n}` of an integer
NumberToString(n) ==
  IF n < 0 THEN <<"-">> \o NatToString(-n) ELSE NatToString(n)

(* ------------------------------ tag map ------------------------------- *)
RECURSIVE buildTagMapLoop(_, _, _)
buildTagMapLoop(tagList, tagToExclude, tagMap) ==
  IF Len(tagList) = 0 THEN tagMap
  ELSE
    LET tag == Head(tagList)
    IN IF ~isSemver(tag) THEN buildTagMapLoop(Tail(tagList), tagToExclude, tagMap)
       ELSE IF tag = tagToExclude THEN buildTagMapLoop(Tail(tagList), tagToExclude, tagMap)
       ELSE
         LET major == getMajor(tag)
             withKey == [m \in DOMAIN tagMap \cup {major} |->
                           IF m \in DOMAIN tagMap THEN tagMap[m] ELSE <<>>]
         IN buildTagMapLoop(Tail(tagList), tagToExclude,
                            [withKey EXCEPT ![major] = Append(@, tag)])

buildTagMap(tagList, tagToExclude) ==
  buildTagMapLoop(tagList, tagToExclude, [m \in {} |-> <<>>])

\* `git tag -l`: the tag names, sorted
RECURSIVE getAllTags(_)
getAllTags(tagRefs) ==
  IF tagRefs = {} THEN <<>>
  ELSE LET least == CHOOSE t \in tagRefs : \A u \in tagRefs \ {t} : StrLess(t, u)
       IN <<least>> \o getAllTags(tagRefs \ {least})

\* a doesMajorTagAlreadyExist that looks for the major among no tags at all
doesMajorTagAlreadyExistInNoTags(major, tagToExclude, tagRefs) ==
  major \in DOMAIN buildTagMap(<<>>, tagToExclude)

doesMajorTagAlreadyExist(major, tagToExclude, tagRefs) ==
  major \in DOMAIN buildTagMap(getAllTags(tagRefs), tagToExclude)

(* ------------------------- the input universe ------------------------- *)
TAG_0_1_0    == <<"0",".","1",".","0">>
TAG_1_0_0    == <<"1",".","0",".","0">>
TAG_1_2_0_RC == <<"1",".","2",".","0","-","r","c",".","1">>
TAG_2_0_0    == <<"2",".","0",".","0">>
TAG_10_0_0   == <<"1","0",".","0",".","0">>
TAG_V1_0_0   == <<"v","1",".","0",".","0">>
BRANCH_MAIN  == <<"m","a","i","n">>
BRANCH_HOTFIX == <<"h","o","t","f","i","x">>
RELEASE_V0   == RELEASE_BRANCH_PREFIX \o <<"0">>
RELEASE_V1   == RELEASE_BRANCH_PREFIX \o <<"1">>
RELEASE_V01  == RELEASE_BRANCH_PREFIX \o <<"0","1">>

\* names a tag of the repository may have; the last two are not versions
TagUniverse ==
  {TAG_0_1_0, TAG_1_0_0, TAG_1_2_0_RC, TAG_2_0_0, TAG_V1_0_0, RELEASE_V0}

\* the commit each tag of the universe points to
TagCommit(tag) ==
  CASE tag = TAG_0_1_0    -> 1
    [] tag = TAG_1_0_0    -> 2
    [] tag = TAG_1_2_0_RC -> 2
    [] tag = TAG_2_0_0    -> MaxCommit
    [] OTHER              -> 0

ReleaseTagUniverse == {TAG_0_1_0, TAG_1_0_0, TAG_2_0_0, TAG_10_0_0, TAG_V1_0_0}
EventUniverse == {"release", "push"}
TargetUniverse == {BRANCH_MAIN, RELEASE_V1, RELEASE_V01, BRANCH_HOTFIX}
DefaultUniverse == {BRANCH_MAIN}
\* release branches the repository may hold before the first run
ExistingUniverse == {RELEASE_V0, RELEASE_V1}
Commits == 0..MaxCommit

\* HEAD when no branch is checked out
Detached == <<>>

(* ------------------------------- state -------------------------------- *)
VARIABLES
  context,           \* github.context: eventName, payload.release, payload.repository, sha
  tags,              \* refs/tags of the working directory
  heads,             \* refs/heads of the working directory: branch name -> commit
  remote,            \* branches of origin: branch name -> commit
  remoteRejects,     \* whether origin rejects a push
  checkedOut,        \* the branch HEAD is on, or Detached
  pc,                \* position of the run in main
  outcome,           \* "running", "ok" (main returned), or the name of the error thrown
  message,           \* what the thrown error says
  previousCommit,    \* main's previousCommit
  releaseBranchName, \* main's releaseBranchName
  trace,             \* the checks passed and git commands run so far in this run
  run,               \* number of the current run
  start,             \* refs and HEAD as the current run found them
  prev               \* how the previous run ended

vars == <<context, tags, heads, remote, remoteRejects, checkedOut, pc, outcome,
          message, previousCommit, releaseBranchName, trace, run, start, prev>>

None == <<>>

(* ----------------------------- accessors ------------------------------ *)
getReleaseTag(ctx) == ctx.payload.release.tag_name

getTargetBranch(ctx) == ctx.payload.release.target_commitish

getDefaultBranch(ctx) == ctx.payload.repository.default_branch

getTagCommit(ctx) == ctx.sha

\* a validateGithubContext without the check of the release tag
validateGithubContextEventOnly(ctx) ==
  IF ctx.eventName # "release" THEN "Unsupported event"
  ELSE ""

\* the message of the error validateGithubContext throws, "" when it returns
validateGithubContext(ctx) ==
  IF ctx.eventName # "release" THEN "Unsupported event"
  ELSE IF ~isSemver(getReleaseTag(ctx)) THEN "Release tag is not in SemVer format"
  ELSE ""

\* `git rev-parse <sha>^` fails on a commit without parent
hasPreviousCommit(sha) == sha > 0

\* a getPreviousCommit that resolves <sha> instead of <sha>^
getPreviousCommitSame(sha) == sha

getPreviousCommit(sha) == sha - 1

\* a doesBranchExist that looks among the tags only
doesBranchExistTagsOnly(branchName, headRefs, tagRefs) ==
  branchName \in tagRefs

\* a doesBranchExist that returns false whatever rev-parse answers
doesBranchExistNever(branchName, headRefs, tagRefs) ==
  FALSE

\* `git rev-parse --verify <name>` resolves <name> as refs/tags/<name> or
\* refs/heads/<name> (gitrevisions: a tag of that name resolves too)
doesBranchExist(branchName, headRefs, tagRefs) ==
  branchName \in tagRefs \/ branchName \in DOMAIN headRefs

\* a release branch name made of the release tag's own major
releaseBranchNameForSameMajor(majorForReleaseTag) ==
  IF majorForReleaseTag = <<>>
  THEN RELEASE_BRANCH_PREFIX \o <<"0">>
  ELSE RELEASE_BRANCH_PREFIX \o NumberToString(parseInt(majorForReleaseTag))

\* main, lines 173-174
releaseBranchNameFor(majorForReleaseTag) ==
  LET previousTag == parseInt(majorForReleaseTag) - 1
  IN IF majorForReleaseTag = <<>>
     THEN RELEASE_BRANCH_PREFIX \o <<"0">>
     ELSE RELEASE_BRANCH_PREFIX \o NumberToString(previousTag)

\* main, lines 164 and 184-194: which way the target branch sends the run
targetBranchCheck(ctx) ==
  LET targetBranch == getTargetBranch(ctx)
      majorForReleaseTag == getMajor(getReleaseTag(ctx))
  IN IF targetBranch = getDefaultBranch(ctx) THEN "default"
     ELSE IF isBranchAReleaseBranch(targetBranch)
          THEN IF majorForReleaseTag = getMajorFromReleaseBranch(targetBranch)
               THEN "All good"
               ELSE "Major version does not match release branch version"
     ELSE "Target branch is not a default or release branch"

(* ------------------------------ helpers ------------------------------- *)
Ops(op) == {trace[i][2] : i \in {j \in 1..Len(trace) : trace[j][1] = op}}

Created == Ops("git checkout -b")

Pushed == Ops("git push origin")

Return ==
  /\ pc' = "done"
  /\ outcome' = "ok"
  /\ message' = ""

Throw(name, msg) ==
  /\ pc' = "done"
  /\ outcome' = name
  /\ message' = msg

(* ------------------------------- Init --------------------------------- *)
Init ==
  /\ \E e \in EventUniverse, t \in ReleaseTagUniverse, b \in TargetUniverse,
        d \in DefaultUniverse, c \in Commits :
       context = [ eventName |-> e,
                   sha |-> c,
                   payload |-> [ release |-> [tag_name |-> t, target_commitish |-> b],
                                 repository |-> [default_branch |-> d] ] ]
  /\ tags \in {T \in SUBSET TagUniverse : Cardinality(T) <= MaxTags}
  /\ \E E \in SUBSET ExistingUniverse :
       heads = [b \in E \cup {getDefaultBranch(context)} |->
                  IF b = getDefaultBranch(context) THEN MaxCommit ELSE 1]
  /\ remote = heads
  /\ remoteRejects \in BOOLEAN
  /\ checkedOut \in {getDefaultBranch(context), Detached}
  /\ pc = "validate"
  /\ outcome = "running"
  /\ message = ""
  /\ previousCommit = None
  /\ releaseBranchName = None
  /\ trace = <<>>
  /\ run = 1
  /\ start = [heads |-> heads, remote |-> remote, checkedOut |-> checkedOut]
  /\ prev = [outcome |-> "none", message |-> "", created |-> {}, pushed |-> {}]

(* ------------------------------ actions ------------------------------- *)
repo == <<tags, heads, remote, remoteRejects, checkedOut>>
runInfo == <<context, run, start, prev>>

\* main, line 150
Validate ==
  /\ pc = "validate"
  /\ IF validateGithubContext(context) # ""
     THEN /\ Throw("ReleaseManagerError", validateGithubContext(context))
          /\ UNCHANGED trace
     ELSE /\ pc' = "target"
          /\ trace' = Append(trace, <<"validateGithubContext", None>>)
          /\ UNCHANGED <<outcome, message>>
  /\ UNCHANGED <<repo, runInfo, previousCommit, releaseBranchName>>

\* main, lines 152-164 and 184-194
Target ==
  /\ pc = "target"
  /\ LET way == targetBranchCheck(context)
     IN IF way = "default"
        THEN /\ pc' = "tags"
             /\ trace' = Append(trace, <<"targetBranch == defaultBranch", None>>)
             /\ UNCHANGED <<outcome, message>>
        ELSE IF way = "All good"
        THEN Return /\ UNCHANGED trace
        ELSE Throw("ReleaseManagerError", way) /\ UNCHANGED trace
  /\ UNCHANGED <<repo, runInfo, previousCommit, releaseBranchName>>

\* main, lines 165-168
CheckMajorTag ==
  /\ pc = "tags"
  /\ LET releaseTag == getReleaseTag(context)
     IN IF doesMajorTagAlreadyExist(getMajor(releaseTag), releaseTag, tags)
        THEN Return /\ trace' = Append(trace, <<"git tag -l", None>>)
        ELSE /\ pc' = "previousCommit"
             /\ trace' = Append(trace, <<"git tag -l", None>>)
                           \o <<<<"major is new", None>>>>
             /\ UNCHANGED <<outcome, message>>
  /\ UNCHANGED <<repo, runInfo, previousCommit, releaseBranchName>>

\* main, lines 170-175
PreviousCommit ==
  /\ pc = "previousCommit"
  /\ IF hasPreviousCommit(getTagCommit(context))
     THEN /\ previousCommit' = getPreviousCommit(getTagCommit(context))
          /\ releaseBranchName' = releaseBranchNameFor(getMajor(getReleaseTag(context)))
          /\ trace' = Append(trace, <<"git rev-parse ^", None>>)
          /\ pc' = "verify"
          /\ UNCHANGED <<outcome, message>>
     ELSE /\ Throw("Error", "git rev-parse failed")
          /\ trace' = Append(trace, <<"git rev-parse ^ failed", None>>)
          /\ UNCHANGED <<previousCommit, releaseBranchName>>
  /\ UNCHANGED <<repo, runInfo>>

\* main, lines 177-179
VerifyBranch ==
  /\ pc = "verify"
  /\ IF doesBranchExist(releaseBranchName, heads, tags)
     THEN /\ Throw("ReleaseManagerError", "Branch already exists")
          /\ trace' = Append(trace, <<"git rev-parse --verify", releaseBranchName>>)
     ELSE /\ pc' = "checkout"
          /\ trace' = Append(trace, <<"git rev-parse --verify", releaseBranchName>>)
                        \o <<<<"branch is new", releaseBranchName>>>>
          /\ UNCHANGED <<outcome, message>>
  /\ UNCHANGED <<repo, runInfo, previousCommit, releaseBranchName>>

\* createBranchFromCommitAndPush, line 96: git checkout -b <branchName> <commit>
CheckoutNewBranch ==
  /\ pc = "checkout"
  /\ IF releaseBranchName \in DOMAIN heads
     THEN /\ Throw("Error", "git checkout -b failed")
          /\ trace' = Append(trace, <<"git checkout -b failed", releaseBranchName>>)
          /\ UNCHANGED <<heads, checkedOut>>
     ELSE /\ heads' = [b \in DOMAIN heads \cup {releaseBranchName} |->
                         IF b = releaseBranchName THEN previousCommit ELSE heads[b]]
          /\ checkedOut' = releaseBranchName
          /\ trace' = Append(trace, <<"git checkout -b", releaseBranchName>>)
          /\ pc' = "push"
          /\ UNCHANGED <<outcome, message>>
  /\ UNCHANGED <<tags, remote, remoteRejects, runInfo, previousCommit, releaseBranchName>>

\* a push that, when rejected, deletes the branch it could not push
PushBranchRollback ==
  /\ pc = "push"
  /\ IF remoteRejects
     THEN /\ Throw("Error", "git push failed")
          /\ trace' = Append(trace, <<"git push origin failed", releaseBranchName>>)
          /\ heads' = [b \in DOMAIN heads \ {releaseBranchName} |-> heads[b]]
          /\ UNCHANGED remote
     ELSE /\ remote' = [b \in DOMAIN remote \cup {releaseBranchName} |->
                          IF b = releaseBranchName THEN heads[releaseBranchName]
                          ELSE remote[b]]
          /\ trace' = Append(trace, <<"git push origin", releaseBranchName>>)
          /\ Return
          /\ UNCHANGED heads
  /\ UNCHANGED <<tags, remoteRejects, checkedOut, runInfo,
                 previousCommit, releaseBranchName>>

\* createBranchFromCommitAndPush, line 97: git push origin <branchName>
PushBranch ==
  /\ pc = "push"
  /\ IF remoteRejects
     THEN /\ Throw("Error", "git push failed")
          /\ trace' = Append(trace, <<"git push origin failed", releaseBranchName>>)
          /\ UNCHANGED remote
     ELSE /\ remote' = [b \in DOMAIN remote \cup {releaseBranchName} |->
                          IF b = releaseBranchName THEN heads[releaseBranchName]
                          ELSE remote[b]]
          /\ trace' = Append(trace, <<"git push origin", releaseBranchName>>)
          /\ Return
  /\ UNCHANGED <<tags, heads, remoteRejects, checkedOut, runInfo,
                 previousCommit, releaseBranchName>>

\* main is invoked again with the same context on the repository as it was left
Rerun ==
  /\ pc = "done"
  /\ run < MaxRuns
  /\ run' = run + 1
  /\ prev' = [outcome |-> outcome, message |-> message,
              created |-> Created, pushed |-> Pushed]
  /\ start' = [heads |-> heads, remote |-> remote, checkedOut |-> checkedOut]
  /\ pc' = "validate"
  /\ outcome' = "running"
  /\ message' = ""
  /\ previousCommit' = None
  /\ releaseBranchName' = None
  /\ trace' = <<>>
  /\ UNCHANGED <<context, repo>>

Next ==
  \/ Validate
  \/ Target
  \/ CheckMajorTag
  \/ PreviousCommit
  \/ VerifyBranch
  \/ CheckoutNewBranch
  \/ PushBranch
  \/ Rerun

Spec == Init /\ [][Next]_vars

(* ----------------------- main as a pure function ---------------------- *)
Result(o, m, c, p) == [outcome |-> o, message |-> m, created |-> c, pushed |-> p]

\* what a run of main does, given the context and the repository it finds
mainResult(ctx, tagRefs, headRefs, rejects) ==
  IF validateGithubContext(ctx) # ""
  THEN Result("ReleaseManagerError", validateGithubContext(ctx), {}, {})
  ELSE
    LET releaseTag == getReleaseTag(ctx)
        majorForReleaseTag == getMajor(releaseTag)
        way == targetBranchCheck(ctx)
        name == releaseBranchNameFor(majorForReleaseTag)
    IN IF way = "default"
       THEN IF doesMajorTagAlreadyExist(majorForReleaseTag, releaseTag, tagRefs)
            THEN Result("ok", "", {}, {})
            ELSE IF ~hasPreviousCommit(getTagCommit(ctx))
            THEN Result("Error", "git rev-parse failed", {}, {})
            ELSE IF doesBranchExist(name, headRefs, tagRefs)
            THEN Result("ReleaseManagerError", "Branch already exists", {}, {})
            ELSE IF name \in DOMAIN headRefs
            THEN Result("Error", "git checkout -b failed", {}, {})
            ELSE IF rejects
            THEN Result("Error", "git push failed", {name}, {})
            ELSE Result("ok", "", {name}, {name})
       ELSE IF way = "All good"
       THEN Result("ok", "", {}, {})
       ELSE Result("ReleaseManagerError", way, {}, {})

\* the run, once over, did what mainResult says
RunAgreesWithMainResult ==
  pc = "done" =>
    Result(outcome, message, Created, Pushed)
      = mainResult(context, tags, start.heads, remoteRejects)

(* --------------------------- vocabulary of claims --------------------- *)
releaseTagOfRun == context.payload.release.tag_name
targetOfRun == context.payload.release.target_commitish
defaultOfRun == context.payload.repository.default_branch

SemverTags(tagRefs) == {t \in tagRefs : isSemver(t)}

MajorNumber(tag) == parseInt(getMajor(tag))

HighestMajor(tagRefs) ==
  CHOOSE n \in {MajorNumber(t) : t \in SemverTags(tagRefs)} :
    \A t \in SemverTags(tagRefs) : MajorNumber(t) <= n

\* the k of a name release/v<k>, k possibly written with a sign
BranchNumber(name) ==
  LET k == SubSeq(name, Len(RELEASE_BRANCH_PREFIX) + 1, Len(name))
  IN IF Len(k) > 0 /\ k[1] = "-" THEN 0 - parseInt(Tail(k)) ELSE parseInt(k)

\* ^release/v(0|[1-9][0-9]*)$
WellFormedReleaseBranch(name) ==
  /\ Len(name) > Len(RELEASE_BRANCH_PREFIX)
  /\ SubSeq(name, 1, Len(RELEASE_BRANCH_PREFIX)) = RELEASE_BRANCH_PREFIX
  /\ NumericIdentifier(SubSeq(name, Len(RELEASE_BRANCH_PREFIX) + 1, Len(name)))

Positions(op) == {i \in 1..Len(trace) : trace[i][1] = op}

NoMutation ==
  /\ Created = {}
  /\ Pushed = {}
  /\ Positions("git push origin failed") = {}
  /\ heads = start.heads
  /\ remote = start.remote
  /\ checkedOut = start.checkedOut

(* ------------------------------- claims ------------------------------- *)

\* C1 (as claimed): a run that started on the default branch and completed
\* has the default branch checked out when it completes.
C1_EndsOnDefaultBranch ==
  (pc = "done" /\ outcome = "ok" /\ start.checkedOut = defaultOfRun)
    => checkedOut = defaultOfRun

\* the case of C2: the run got as far as naming the release branch to create,
\* and a branch of that name was in the repository when the run started
C2_Case ==
  /\ pc = "done"
  /\ releaseBranchName # None
  /\ releaseBranchName \in DOMAIN start.heads

\* C2 (as claimed): when the release branch the run would create exists before
\* the run, the run creates and pushes nothing and ends without error.
C2_ExistingBranchIsNoError ==
  C2_Case => outcome = "ok" /\ Created = {} /\ Pushed = {}

\* C2 (amended): when the release branch the run would create exists before
\* the run, the run creates and pushes nothing, leaves the repository as it
\* found it, and fails with ReleaseManagerError "Branch already exists".
C2_ExistingBranchIsError ==
  C2_Case =>
    /\ outcome = "ReleaseManagerError"
    /\ message = "Branch already exists"
    /\ NoMutation

C2_Witness == C2_Case /\ run = 1

\* C3 (as claimed): a second run after a successful first run, on the state
\* the first run left, succeeds, creates no branch and pushes nothing.
C3_SecondRunSucceeds ==
  (run >= 2 /\ pc = "done" /\ prev.outcome = "ok")
    => outcome = "ok" /\ Created = {} /\ Pushed = {}

\* C3 (amended): a second run after a successful first run creates no branch
\* and pushes nothing; it succeeds when the first run created no branch, and
\* fails with ReleaseManagerError "Branch already exists" when the first run
\* created one.
C3_SecondRunCreatesNothing ==
  (run >= 2 /\ pc = "done" /\ prev.outcome = "ok")
    => /\ NoMutation
       /\ IF prev.created = {}
          THEN outcome = "ok"
          ELSE outcome = "ReleaseManagerError" /\ message = "Branch already exists"

C3_Witness ==
  run = 2 /\ pc = "done" /\ prev.outcome = "ok" /\ prev.created # {}

\* C4 (as claimed): every branch release/v<k> a run creates has k strictly
\* less than the highest major among the valid-semver tags of the tag list.
C4_BelowHighestMajor ==
  \A name \in Created :
    SemverTags(tags) # {} => BranchNumber(name) < HighestMajor(tags)

\* C4 (amended): every branch release/v<k> a run creates has k equal to the
\* release tag's major minus one, so k is strictly less than the release tag's
\* major, and strictly less than the highest major among the valid-semver tags
\* whenever the release tag is itself in the tag list.
C4_BelowReleaseMajor ==
  \A name \in Created :
    /\ SubSeq(name, 1, Len(RELEASE_BRANCH_PREFIX)) = RELEASE_BRANCH_PREFIX
    /\ BranchNumber(name) = MajorNumber(releaseTagOfRun) - 1
    /\ releaseTagOfRun \in tags => BranchNumber(name) < HighestMajor(tags)

C4_Witness == Created # {} /\ releaseTagOfRun \in tags

\* C5 (as claimed): whenever a run creates release/v<k>, a valid-semver tag of
\* major k is in the tag list and the new branch's head is that tag's commit.
C5_PinnedAtTag ==
  \A name \in Created :
    \E t \in SemverTags(tags) :
      /\ MajorNumber(t) = BranchNumber(name)
      /\ heads[name] = TagCommit(t)

\* C5 (amended): whenever a run creates release/v<k>, the new branch's head is
\* the parent of the event's commit (context.sha^), whether or not a tag of
\* major k is in the tag list.
C5_PinnedAtPreviousCommit ==
  \A name \in Created :
    /\ context.sha > 0
    /\ heads[name] = context.sha - 1

C5_Witness ==
  /\ Created # {}
  /\ \A t \in SemverTags(tags) : \A name \in Created : MajorNumber(t) # BranchNumber(name)

C7_Case ==
  /\ pc = "done"
  /\ Positions("git push origin failed") # {}

\* C7: when the push fails after the branch was created, the run ends there
\* with the error, the push is attempted once, nothing reaches origin, and the
\* created branch stays where it was created, also for the next run.
C7_NoRollbackNoRetry ==
  /\ C7_Case =>
       /\ outcome = "Error"
       /\ trace[Len(trace)][1] = "git push origin failed"
       /\ Cardinality(Positions("git push origin failed")) = 1
       /\ Positions("git push origin") = {}
       /\ remote = start.remote
       /\ Created = {releaseBranchName}
       /\ releaseBranchName \in DOMAIN heads
       /\ heads[releaseBranchName] = previousCommit
  /\ (prev.outcome = "Error" /\ prev.created # {}) =>
       \A b \in prev.created : b \in DOMAIN heads /\ b \notin DOMAIN remote

C7_Witness == C7_Case /\ Created # {}

\* C8 (as claimed): every branch name a run computes has the form
\* release/v<n>, n a decimal number without sign or leading zeros.
C8_BranchNameWellFormed ==
  releaseBranchName # None => WellFormedReleaseBranch(releaseBranchName)

\* names that are not semantic versions, to add to or remove from the tag list
NonSemverUniverse == {TAG_V1_0_0, RELEASE_V0}

\* C9 (as claimed): the result of a run is the same when tags that are not
\* semantic versions are added to or removed from the tag list.
C9_NonSemverTagsIrrelevant ==
  pc = "done" =>
    \A N \in SUBSET NonSemverUniverse :
      /\ mainResult(context, tags \cup N, start.heads, remoteRejects)
           = Result(outcome, message, Created, Pushed)
      /\ mainResult(context, tags \ N, start.heads, remoteRejects)
           = Result(outcome, message, Created, Pushed)

\* C10: a branch is created only after the event was found to be 'release',
\* the release tag a semantic version, the target the default branch, the
\* major free of other tags and the branch name unresolvable; a push only
\* after the creation of the same branch; at most one creation and one push
\* per run; and nothing of the repository changes in a run that creates no
\* branch.
C10_ChecksPrecedeMutation ==
  /\ Cardinality(Positions("git checkout -b")) <= 1
  /\ Cardinality(Positions("git push origin") \cup Positions("git push origin failed")) <= 1
  /\ \A i \in Positions("git checkout -b") :
       /\ \E a, b, c, d \in 1..(i-1) :
            /\ a < b /\ b < c /\ c < d
            /\ trace[a][1] = "validateGithubContext"
            /\ trace[b][1] = "targetBranch == defaultBranch"
            /\ trace[c][1] = "major is new"
            /\ trace[d] = <<"branch is new", trace[i][2]>>
       /\ context.eventName = "release"
       /\ releaseTagOfRun \in {TAG_0_1_0, TAG_1_0_0, TAG_2_0_0, TAG_10_0_0}
       /\ targetOfRun = defaultOfRun
       /\ \A t \in tags \cap {TAG_0_1_0, TAG_1_0_0, TAG_1_2_0_RC, TAG_2_0_0} :
            t # releaseTagOfRun => MajorNumber(t) # MajorNumber(releaseTagOfRun)
       /\ trace[i][2] \notin DOMAIN start.heads
       /\ trace[i][2] \notin tags
  /\ \A i \in Positions("git push origin") \cup Positions("git push origin failed") :
       \E j \in 1..(i-1) : trace[j] = <<"git checkout -b", trace[i][2]>>
  /\ Created = {} =>
       /\ heads = start.heads
       /\ remote = start.remote
       /\ checkedOut = start.checkedOut

C10_Witness == pc = "done" /\ Pushed # {}

====
